---- MODULE Spec2Model ----
(***************************************************************************)
(* Model of the carving engine of file-recover.py:                         *)
(* FileRecoveryTool.recover_full_drive / _carve_files_chunked, the         *)
(* per-format extractors and _passes_filters.                              *)
(*                                                                         *)
(* The source is a byte sequence read through one file handle whose        *)
(* position (fpos) is shared by the chunk reader and the extractors, as in *)
(* the code.  Bytes are the integers 0..255.  The signature catalogue and  *)
(* the 16-byte scan margin are those of the code; the size ceilings, the   *)
(* probe sizes of the extractors and the buffer slack are scaled down,     *)
(* keeping their order, so that small sources exercise every branch (the   *)
(* scaled value and the value in the code are given at each definition).   *)
(***************************************************************************)
EXTENDS Integers, Sequences, FiniteSets, TLC

\* ------------------------------------------------------------------------
\* Scaled program constants
\* ------------------------------------------------------------------------
\* size ceilings of FILE_SIGNATURES (code: 1e6, 1e7, 3e7, 5e7, 1e8, 5e8)
Ceil1M == 30
Ceil10M == 32
Ceil30M == 34
Ceil50M == 36
Ceil100M == 38
Ceil500M == 40
\* slack added to the longest signature in buffer_size (code: 1024)
BufferSlack == 8
\* bytes at the end of the buffer the scan loop does not test (code: 16)
ScanMargin == 16
\* probe sizes of the extractors (code: 8192, 65536, 131072, 65536, 512, 4096);
\* each stays below the ceiling of its format, as in the code
JpgProbe == 8
PngProbe == 24
PdfProbe == 28
ZipTail == 24
CfbSkip == 2
CfbProbe == 12
\* length of the ZIP end-of-central-directory record read by the code (22)
EocdLen == 22

\* ------------------------------------------------------------------------
\* Bounds of the model
\* ------------------------------------------------------------------------
\* integers decoded from the source saturate here; Huge exceeds every
\* offset and every ceiling of the model, so comparisons and read lengths
\* behave as with Python's unbounded integers
Huge == 1048576

Min(a, b) == IF a < b THEN a ELSE b
Max(a, b) == IF a > b THEN a ELSE b

\* ------------------------------------------------------------------------
\* FILE_SIGNATURES and EXTENSION_MAP
\* ------------------------------------------------------------------------
Sig(s, o, t, m) == [signature |-> s, offset |-> o, file_type |-> t, max_size |-> m]

FILE_SIGNATURES ==
  << Sig(<<80, 75, 3, 4>>, 0, "zip_based", Ceil10M),
     Sig(<<208, 207, 17, 224>>, 0, "cfb", Ceil50M),
     Sig(<<37, 80, 68, 70>>, 0, "pdf", Ceil100M),
     Sig(<<80, 75, 5, 6>>, 0, "zip_based", Ceil10M),
     Sig(<<80, 75, 7, 8>>, 0, "zip_based", Ceil10M),
     Sig(<<255, 216, 255>>, 0, "jpg", Ceil30M),
     Sig(<<137, 80, 78, 71>>, 0, "png", Ceil50M),
     Sig(<<71, 73, 70, 56>>, 0, "gif", Ceil10M),
     Sig(<<66, 77>>, 0, "bmp", Ceil100M),
     Sig(<<73, 73, 42, 0>>, 0, "tiff", Ceil100M),
     Sig(<<77, 77, 0, 42>>, 0, "tiff", Ceil100M),
     Sig(<<0, 0, 0, 24, 102, 116, 121, 112>>, 4, "mp4", Ceil500M),
     Sig(<<82, 73, 70, 70>>, 0, "avi", Ceil500M),
     Sig(<<26, 69, 223, 163>>, 0, "mkv", Ceil500M),
     Sig(<<102, 116, 121, 112>>, 4, "mov", Ceil500M),
     Sig(<<70, 76, 86, 1>>, 0, "flv", Ceil100M),
     Sig(<<73, 68, 51>>, 0, "mp3", Ceil10M),
     Sig(<<255, 251>>, 0, "mp3", Ceil10M),
     Sig(<<82, 73, 70, 70>>, 0, "wav", Ceil100M),
     Sig(<<255, 241>>, 0, "aac", Ceil10M),
     Sig(<<102, 76, 97, 67>>, 0, "flac", Ceil100M),
     Sig(<<82, 97, 114, 33, 26, 7, 0>>, 0, "rar", Ceil100M),
     Sig(<<82, 97, 114, 33, 26, 7, 1, 0>>, 0, "rar5", Ceil100M),
     Sig(<<55, 122, 188, 175, 39, 28>>, 0, "7z", Ceil100M),
     Sig(<<60, 33, 68, 79, 67, 84>>, 0, "html", Ceil1M),
     Sig(<<47, 42, 32, 67, 83, 83>>, 0, "css", Ceil1M),
     Sig(<<60, 115, 99, 114, 105, 112>>, 0, "js", Ceil1M),
     Sig(<<77, 90>>, 0, "exe", Ceil50M) >>

NumSigs == Len(FILE_SIGNATURES)

\* file names are sequences of one-character strings
EXTENSION_MAP(t) ==
  CASE t = "zip_based" -> <<".", "z", "i", "p", "_", "o", "r", "_", "o", "f", "f", "i", "c", "e">>
    [] t = "cfb" -> <<".", "c", "f", "b", "_", "f", "i", "l", "e">>
    [] t = "pdf" -> <<".", "p", "d", "f">>
    [] t = "jpg" -> <<".", "j", "p", "g">>
    [] t = "png" -> <<".", "p", "n", "g">>
    [] t = "gif" -> <<".", "g", "i", "f">>
    [] t = "bmp" -> <<".", "b", "m", "p">>
    [] t = "tiff" -> <<".", "t", "i", "f", "f">>
    [] t = "mp4" -> <<".", "m", "p", "4">>
    [] t = "avi" -> <<".", "a", "v", "i">>
    [] t = "mkv" -> <<".", "m", "k", "v">>
    [] t = "mov" -> <<".", "m", "o", "v">>
    [] t = "flv" -> <<".", "f", "l", "v">>
    [] t = "mp3" -> <<".", "m", "p", "3">>
    [] t = "wav" -> <<".", "w", "a", "v">>
    [] t = "aac" -> <<".", "a", "a", "c">>
    [] t = "flac" -> <<".", "f", "l", "a", "c">>
    [] t = "rar" -> <<".", "r", "a", "r">>
    [] t = "rar5" -> <<".", "r", "a", "r">>
    [] t = "7z" -> <<".", "7", "z">>
    [] t = "html" -> <<".", "h", "t", "m", "l">>
    [] t = "css" -> <<".", "c", "s", "s">>
    [] t = "js" -> <<".", "j", "s">>
    [] t = "exe" -> <<".", "e", "x", "e">>
    [] OTHER -> <<".", "b", "i", "n">>

\* buffer_size = max(len(sig) + offset for ... in FILE_SIGNATURES) + 1024
buffer_size ==
  LET spans == {Len(FILE_SIGNATURES[i].signature) + FILE_SIGNATURES[i].offset : i \in 1..NumSigs}
  IN (CHOOSE m \in spans : \A x \in spans : x <= m) + BufferSlack

\* ------------------------------------------------------------------------
\* bytes helpers
\* ------------------------------------------------------------------------
\* bytes.find: 0-based index of the first occurrence of pat in data, or -1
Find(data, pat) ==
  LET idx == {i \in 0..(Len(data) - Len(pat)) : SubSeq(data, i + 1, i + Len(pat)) = pat}
  IN IF idx = {} THEN -1 ELSE CHOOSE i \in idx : \A j \in idx : i <= j

\* data[a:b] of Python for 0 <= a
Slice(data, a, b) == SubSeq(data, a + 1, Min(b, Len(data)))

\* decoded integers saturate at Huge
Saturate(v) == IF v > Huge THEN Huge ELSE v

\* struct.unpack('>I' / '>Q'): big-endian unsigned, saturating at Huge
RECURSIVE UnpackBE(_)
UnpackBE(b) ==
  IF b = <<>> THEN 0
  ELSE LET hi == UnpackBE(SubSeq(b, 1, Len(b) - 1))
       IN Saturate(hi * 256 + b[Len(b)])

\* struct.unpack('<I'): little-endian unsigned, saturating at Huge
RECURSIVE UnpackLE(_)
UnpackLE(b) ==
  IF b = <<>> THEN 0
  ELSE LET hi == UnpackLE(Tail(b))
       IN Saturate(b[1] + 256 * hi)

\* ------------------------------------------------------------------------
\* State
\* ------------------------------------------------------------------------
VARIABLES
  source,          \* the bytes of the device or image (file_size = Len(source))
  bad,             \* offsets whose read raises an I/O error (bad sectors)
  chunk_size,      \* chunk_size argument of _carve_files_chunked
  filters,         \* filters argument
  sink_fail_at,    \* value of recovered_count at which open()/write() raises, or -1
  fpos,            \* position of file_handle
  position,        \* position (local of _carve_files_chunked)
  read_size,       \* read_size of the current iteration
  buffer,          \* buffer
  origin,          \* origin[i]: source offset buffer[i] was read from (history)
  buffer_pos,      \* buffer_pos
  recovered_count, \* recovered_count
  emitted,         \* files written to output_dir, in order (history)
  calls,           \* _carve_file_at_position invocations, in order (history)
  pc               \* "read": head of the outer loop, "scan": head of the inner
                   \* loop, "done": returned, "failed": an exception reached
                   \* recover_full_drive, "hung": an extractor does not return;
                   \* in ExtractSpec "call": before the extractor is called,
                   \* "returned": after it has returned

vars == <<source, bad, chunk_size, filters, sink_fail_at, fpos, position, read_size,
          buffer, origin, buffer_pos, recovered_count, emitted, calls, pc>>

env == <<source, bad, chunk_size, filters, sink_fail_at>>

file_size == Len(source)

\* ------------------------------------------------------------------------
\* file_handle: a binary file object positioned at fp
\* ------------------------------------------------------------------------
\* file_handle.read(n) at position fp: the bytes up to end of file, the
\* handle advanced past them; an I/O error when the range holds a bad offset
FRead(fp, n) ==
  LET end == Min(fp + n, file_size)
  IN IF \E b \in bad : fp <= b /\ b < end
       THEN [ok |-> FALSE, data |-> <<>>, fpos |-> fp]
       ELSE [ok |-> TRUE, data |-> SubSeq(source, fp + 1, end), fpos |-> Max(fp, end)]

\* results of an extractor: the value returned ("data", b'' included), None
\* ("none"), an exception caught by the except clauses ("error"), or no
\* return at all ("hang"); fpos is where the handle is left
RetNone(fp) == [status |-> "none", data |-> <<>>, fpos |-> fp]
RetError(fp) == [status |-> "error", data |-> <<>>, fpos |-> fp]
RetHang(fp) == [status |-> "hang", data |-> <<>>, fpos |-> fp]
\* file_handle.seek(start); return file_handle.read(n)
RetRead(start, n) ==
  LET r == FRead(start, n)
  IN IF r.ok THEN [status |-> "data", data |-> r.data, fpos |-> r.fpos]
     ELSE RetError(r.fpos)

\* ------------------------------------------------------------------------
\* Extractors
\* ------------------------------------------------------------------------
\* scan the first probe bytes for a marker and return up to marker + extra
CarveByMarker(start, probe, marker, extra) ==
  LET r == FRead(start, probe)
  IN IF ~r.ok THEN RetError(start)
     ELSE LET p == Find(r.data, marker)
          IN IF p # -1 THEN RetRead(start, p + extra) ELSE RetNone(r.fpos)

_carve_jpg(start, max_size) ==
  CarveByMarker(start, Min(JpgProbe, max_size), <<255, 217>>, 2)

_carve_png(start, max_size) ==
  CarveByMarker(start, Min(PngProbe, max_size), <<73, 69, 78, 68>>, 12)

_carve_pdf(start, max_size) ==
  CarveByMarker(start, Min(PdfProbe, max_size), <<37, 37, 69, 79, 70>>, 5)

RECURSIVE Mp4Walk(_, _, _)
Mp4Walk(start, pos, max_size) ==
  IF ~(pos < start + max_size) THEN RetRead(start, pos - start)
  ELSE LET h == FRead(pos, 8)
       IN IF ~h.ok THEN RetError(pos)
          ELSE IF Len(h.data) < 8 THEN RetRead(start, pos - start)
          ELSE LET size == UnpackBE(SubSeq(h.data, 1, 4))
                   box_type == SubSeq(h.data, 5, 8)
               IN IF size = 0 THEN RetRead(start, pos - start)
                  ELSE IF size = 1
                    THEN LET e == FRead(h.fpos, 8)
                         IN IF ~e.ok THEN RetError(h.fpos)
                            ELSE IF Len(e.data) < 8 THEN RetError(e.fpos)
                            ELSE LET npos == pos + UnpackBE(e.data)
                                 IN IF box_type = <<109, 100, 97, 116>>
                                      THEN RetRead(start, npos - start)
                                    ELSE IF npos = pos THEN RetHang(e.fpos)
                                    ELSE Mp4Walk(start, npos, max_size)
                    ELSE IF box_type = <<109, 100, 97, 116>>
                           THEN RetRead(start, pos + size - start)
                         ELSE Mp4Walk(start, pos + size, max_size)

_carve_mp4(start, max_size) == Mp4Walk(start, start, max_size)

RECURSIVE AviWalk(_, _, _)
AviWalk(start, pos, max_size) ==
  IF ~(pos < start + max_size) THEN RetRead(start, pos - start)
  ELSE LET h == FRead(pos, 8)
       IN IF ~h.ok THEN RetError(pos)
          ELSE IF Len(h.data) < 8 THEN RetRead(start, pos - start)
          ELSE LET chunk_id == SubSeq(h.data, 1, 4)
                   csize == UnpackLE(SubSeq(h.data, 5, 8))
                   t == FRead(h.fpos, 4)
               IN IF chunk_id = <<82, 73, 70, 70>> /\ csize >= 4
                    THEN IF ~t.ok THEN RetError(h.fpos)
                         ELSE IF t.data # <<65, 86, 73, 32>>
                           THEN RetRead(start, pos - start)
                         ELSE AviWalk(start, pos + csize + 8, max_size)
                  ELSE IF chunk_id = <<76, 73, 83, 84>> /\ ~t.ok THEN RetError(h.fpos)
                  ELSE AviWalk(start, pos + csize + 8, max_size)

_carve_avi(start, max_size) == AviWalk(start, start, max_size)

_carve_zip_based(start, max_size) ==
  LET w == FRead(start + max_size - ZipTail, ZipTail)
  IN IF ~w.ok THEN RetError(start + max_size - ZipTail)
     ELSE LET eocd_pos == Find(w.data, <<80, 75, 5, 6>>)
              eocd == Slice(w.data, eocd_pos, eocd_pos + EocdLen)
          IN IF eocd_pos = -1 THEN RetNone(w.fpos)
             ELSE IF Len(eocd) < 20 THEN RetError(w.fpos)
             ELSE RetRead(start, UnpackLE(SubSeq(eocd, 17, 20))
                                   + UnpackLE(SubSeq(eocd, 13, 16)) + EocdLen)

_carve_cfb(start, max_size) ==
  LET r == FRead(start + CfbSkip, CfbProbe)
  IN IF ~r.ok THEN RetError(start + CfbSkip)
     ELSE IF Find(r.data, <<82, 111, 111, 116, 32, 69, 110, 116, 114, 121>>) # -1
             \/ Find(r.data, <<208, 207, 17, 224, 161, 177, 26, 225>>) # -1
       THEN RetRead(start, max_size)
     ELSE RetNone(r.fpos)

_carve_generic(start, max_size) == RetRead(start, max_size)

\* fp: the handle's position at the call; a negative position makes seek raise
_carve_file_at_position(fp, pos, file_type, max_size) ==
  IF pos < 0 THEN RetError(fp)
  ELSE CASE file_type = "jpg" -> _carve_jpg(pos, max_size)
         [] file_type = "png" -> _carve_png(pos, max_size)
         [] file_type = "pdf" -> _carve_pdf(pos, max_size)
         [] file_type = "mp4" -> _carve_mp4(pos, max_size)
         [] file_type = "avi" -> _carve_avi(pos, max_size)
         [] file_type = "zip_based" -> _carve_zip_based(pos, max_size)
         [] file_type = "cfb" -> _carve_cfb(pos, max_size)
         [] OTHER -> _carve_generic(pos, max_size)

\* ------------------------------------------------------------------------
\* File names and filters
\* ------------------------------------------------------------------------
DigitChars == <<"0", "1", "2", "3", "4", "5", "6", "7", "8", "9",
                "a", "b", "c", "d", "e", "f">>

\* format(n, '0<width>x') for base 16 and format(n, '0<width>d') for base 10
RECURSIVE FormatInt(_, _, _)
FormatInt(n, base, width) ==
  IF n < base /\ width <= 1 THEN <<DigitChars[n + 1]>>
  ELSE FormatInt(n \div base, base, width - 1) \o <<DigitChars[(n % base) + 1]>>

\* f"carved_{timestamp}_{file_pos:012x}_{recovered_count:06d}{ext}"
FileName(timestamp, file_pos, count, file_type) ==
  <<"c", "a", "r", "v", "e", "d", "_">> \o timestamp \o <<"_">>
    \o FormatInt(file_pos, 16, 12) \o <<"_">> \o FormatInt(count, 10, 6)
    \o EXTENSION_MAP(file_type)

UpperChars == <<"A", "B", "C", "D", "E", "F", "G", "H", "I", "J", "K", "L", "M",
                "N", "O", "P", "Q", "R", "S", "T", "U", "V", "W", "X", "Y", "Z">>
LowerChars == <<"a", "b", "c", "d", "e", "f", "g", "h", "i", "j", "k", "l", "m",
                "n", "o", "p", "q", "r", "s", "t", "u", "v", "w", "x", "y", "z">>

\* str.lower()
LowerChar(c) ==
  IF \E i \in 1..26 : UpperChars[i] = c
    THEN LowerChars[CHOOSE i \in 1..26 : UpperChars[i] = c]
    ELSE c
Lower(str) == [i \in 1..Len(str) |-> LowerChar(str[i])]

\* os.path.splitext(name)[1] for a name without directory separators: from
\* the last dot on, unless there is none or only dots precede it
SplitExt(name) ==
  LET dots == {i \in 1..Len(name) : name[i] = "."}
      last == CHOOSE i \in dots : \A j \in dots : j <= i
  IN IF dots = {} THEN <<>>
     ELSE IF \A j \in 1..(last - 1) : name[j] = "." THEN <<>>
     ELSE SubSeq(name, last, Len(name))

\* a filters dict: has_x says whether key x is present
Filters(he, e, hn, n, hm, m) ==
  [has_extensions |-> he, extensions |-> e, has_name_substring |-> hn,
   name_substring |-> n, has_max_size |-> hm, max_size |-> m]

\* truth value of the dict: it has a key
FiltersGiven(f) == f.has_extensions \/ f.has_name_substring \/ f.has_max_size

\* _passes_filters returning True as soon as the extension matches
_passes_filters_first_match(file_name, size, f) ==
  IF f.has_extensions /\ f.extensions # {}
    THEN Lower(SplitExt(file_name)) \in f.extensions
  ELSE IF f.has_name_substring /\ f.name_substring # <<>>
          /\ Find(Lower(file_name), Lower(f.name_substring)) = -1
    THEN FALSE
  ELSE IF f.has_max_size /\ size > f.max_size
    THEN FALSE
  ELSE TRUE

_passes_filters(file_name, size, f) ==
  IF f.has_extensions /\ f.extensions # {} /\ Lower(SplitExt(file_name)) \notin f.extensions
    THEN FALSE
  ELSE IF f.has_name_substring /\ f.name_substring # <<>>
          /\ Find(Lower(file_name), Lower(f.name_substring)) = -1
    THEN FALSE
  ELSE IF f.has_max_size /\ size > f.max_size
    THEN FALSE
  ELSE TRUE

\* ------------------------------------------------------------------------
\* _carve_files_chunked: one pass of the inner while loop at buffer_pos
\* ------------------------------------------------------------------------
\* the test of entry i at buffer_pos
SigMatches(i) ==
  LET sig_len == Len(FILE_SIGNATURES[i].signature)
  IN /\ buffer_pos + sig_len <= Len(buffer)
     /\ SubSeq(buffer, buffer_pos + 1, buffer_pos + sig_len) = FILE_SIGNATURES[i].signature

\* file_pos = position - len(buffer) + buffer_pos + offset
FilePos(i) == position - Len(buffer) + buffer_pos + FILE_SIGNATURES[i].offset

\* the loop state after the extractor of entry i has returned r
AfterCall(st, i, r) ==
  [st EXCEPT !.fpos = r.fpos,
             !.calls = Append(st.calls,
                [buffer_pos |-> buffer_pos, magic_at |-> origin[buffer_pos + 1],
                 sig |-> i, file_pos |-> FilePos(i), status |-> r.status,
                 length |-> Len(r.data)])]

\* the file written for entry i
Carved(i, file_name, data) ==
  [source_offset |-> FilePos(i), bytes |-> data,
   file_type |-> FILE_SIGNATURES[i].file_type, name |-> file_name,
   sig |-> i, magic_at |-> origin[buffer_pos + 1]]

\* the for loop over FILE_SIGNATURES from entry i on; st carries the handle
\* position, the counter and the histories.  outcome: "found" (break with
\* found = True, adv = len(carved_data)), "notfound" (loop exhausted),
\* "sinkfail" (open/write raised), "hang" (the extractor does not return)
RECURSIVE ScanSigs(_, _, _)

\* the body of the loop after _carve_file_at_position has returned r for
\* entry i: st1 is the loop state after the call, file_name the name
\* synthesised when carved_data is not empty
AfterCarve(i, st1, timestamp, r, file_name) ==
  IF r.status = "hang" THEN [st1 EXCEPT !.outcome = "hang"]
  ELSE IF r.data = <<>>
          \/ (FiltersGiven(filters) /\ ~_passes_filters(file_name, Len(r.data), filters))
    THEN ScanSigs(i + 1, st1, timestamp)
  ELSE IF st1.recovered_count = sink_fail_at
    THEN [st1 EXCEPT !.outcome = "sinkfail"]
  ELSE [st1 EXCEPT !.outcome = "found",
                   !.adv = Len(r.data),
                   !.recovered_count = st1.recovered_count + 1,
                   !.emitted = Append(st1.emitted, Carved(i, file_name, r.data))]

CarveEntry(i, st, timestamp, r) ==
  AfterCarve(i, AfterCall(st, i, r), timestamp, r,
             FileName(timestamp, FilePos(i), st.recovered_count,
                      FILE_SIGNATURES[i].file_type))

ScanSigs(i, st, timestamp) ==
  IF i > NumSigs THEN [st EXCEPT !.outcome = "notfound"]
  ELSE IF ~SigMatches(i) THEN ScanSigs(i + 1, st, timestamp)
  ELSE CarveEntry(i, st, timestamp,
                  _carve_file_at_position(st.fpos, FilePos(i),
                                          FILE_SIGNATURES[i].file_type,
                                          FILE_SIGNATURES[i].max_size))

ScanAt(timestamp) ==
  ScanSigs(1, [fpos |-> fpos, recovered_count |-> recovered_count,
               emitted |-> emitted, calls |-> calls,
               outcome |-> "notfound", adv |-> 0], timestamp)

\* datetime.now().strftime('%Y%m%d_%H%M%S')
Timestamps ==
  { <<"2", "0", "2", "5", "0", "1", "0", "1", "_", "1", "2", "0", "0", "0", "0">> }

InScan == pc = "scan" /\ buffer_pos < Len(buffer) - ScanMargin

\* ------------------------------------------------------------------------
\* Inputs of the model
\* ------------------------------------------------------------------------
\* longest source
MaxSourceLen == 44

Zeros(n) == [i \in 1..n |-> 0]
\* seq followed by zero bytes up to length n
Pad(seq, n) == seq \o Zeros(n - Len(seq))

\* a complete JPEG: SOI, one segment, EOI
Jpeg == <<255, 216, 255, 224, 1, 2, 255, 217>>
\* an ISO box of size 1 whose 64-bit largesize is 0
BoxLarge0 == <<0, 0, 0, 1, 102, 114, 101, 101, 0, 0, 0, 0, 0, 0, 0, 0>>
\* the head of an MP4 file: an ftyp box of 24 bytes
Mp4Head == <<0, 0, 0, 24, 102, 116, 121, 112>>
Riff == <<82, 73, 70, 70>>
Exe == <<77, 90>>

NoFilters == Filters(FALSE, {}, FALSE, <<>>, FALSE, 0)

SourceSet ==
  { Pad(Zeros(a) \o Jpeg, n) : a \in {0, 3, 10, 12}, n \in {20, 40, MaxSourceLen} }
  \cup { Pad(Jpeg \o Zeros(2) \o Jpeg, n) : n \in {20, 40} }
  \cup { Pad(Zeros(a) \o Exe, n) : a \in {11, 17}, n \in {30, 40} }
  \cup { Pad(Zeros(10) \o Riff, MaxSourceLen),
         Pad(BoxLarge0 \o Mp4Head, 40),
         Zeros(20), <<>> }

ChunkSizes == {7, 10, 20, 64}

FilterSet ==
  { NoFilters,
    Filters(TRUE, {<<".", "j", "p", "g">>}, FALSE, <<>>, FALSE, 0),
    Filters(TRUE, {<<".", "e", "x", "e">>}, TRUE, <<"C", "A", "R", "V">>, FALSE, 0),
    Filters(FALSE, {}, FALSE, <<>>, TRUE, 8),
    Filters(TRUE, {<<".", "j", "p", "g">>, <<".", "e", "x", "e">>}, FALSE, <<>>, TRUE, 4),
    Filters(FALSE, {}, TRUE, <<"_", "0", "0", "1">>, TRUE, 30) }

Configs ==
  { [source |-> src, chunk_size |-> c, bad |-> {}, filters |-> NoFilters, sink_fail_at |-> -1]
      : src \in SourceSet, c \in ChunkSizes }
  \cup
  { [source |-> src, chunk_size |-> c, bad |-> {}, filters |-> f, sink_fail_at |-> -1]
      : src \in {s \in SourceSet : Len(s) = 40}, c \in {7, 10}, f \in FilterSet }
  \cup
  { [source |-> src, chunk_size |-> 22, bad |-> {}, filters |-> NoFilters, sink_fail_at |-> -1]
      : src \in {s \in SourceSet : Len(s) >= 40} }
  \cup
  { [source |-> src, chunk_size |-> 10, bad |-> {b}, filters |-> NoFilters, sink_fail_at |-> -1]
      : src \in {s \in SourceSet : Len(s) >= 40}, b \in {25, 38} }
  \cup
  { [source |-> src, chunk_size |-> 10, bad |-> {}, filters |-> NoFilters, sink_fail_at |-> k]
      : src \in {s \in SourceSet : Len(s) = 40}, k \in {0, 1} }

\* ------------------------------------------------------------------------
\* The session
\* ------------------------------------------------------------------------
Init ==
  /\ \E c \in Configs :
       /\ source = c.source
       /\ bad = c.bad
       /\ chunk_size = c.chunk_size
       /\ filters = c.filters
       /\ sink_fail_at = c.sink_fail_at
  /\ fpos = 0
  /\ position = 0
  /\ read_size = 0
  /\ buffer = <<>>
  /\ origin = <<>>
  /\ buffer_pos = 0
  /\ recovered_count = 0
  /\ emitted = <<>>
  /\ calls = <<>>
  /\ pc = "read"

\* buffer += chunk; if len(buffer) > buffer_size * 2: buffer = buffer[-buffer_size:]
Refill(buf, chunk) ==
  LET b == buf \o chunk
  IN IF Len(b) > buffer_size * 2 THEN SubSeq(b, Len(b) - buffer_size + 1, Len(b)) ELSE b

NextReadSize == Min(chunk_size, file_size - position)

\* the outer loop reads a chunk and starts scanning the buffer
ReadChunk ==
  /\ pc = "read"
  /\ position < file_size
  /\ LET r == FRead(fpos, NextReadSize)
     IN /\ r.ok
        /\ r.data # <<>>
        /\ buffer' = Refill(buffer, r.data)
        /\ origin' = Refill(origin, [i \in 1..Len(r.data) |-> fpos + i - 1])
        /\ fpos' = r.fpos
  /\ read_size' = NextReadSize
  /\ buffer_pos' = 0
  /\ pc' = "scan"
  /\ UNCHANGED <<env, position, recovered_count, emitted, calls>>

\* file_handle.read raises: the exception leaves _carve_files_chunked and
\* recover_full_drive logs it and returns False
ReadChunkError ==
  /\ pc = "read"
  /\ position < file_size
  /\ ~FRead(fpos, NextReadSize).ok
  /\ read_size' = NextReadSize
  /\ pc' = "read_error"
  /\ UNCHANGED <<env, fpos, position, buffer, origin, buffer_pos, recovered_count,
                 emitted, calls>>

\* if not chunk: break
ReadChunkEmpty ==
  /\ pc = "read"
  /\ position < file_size
  /\ LET r == FRead(fpos, NextReadSize) IN r.ok /\ r.data = <<>>
  /\ read_size' = NextReadSize
  /\ pc' = "done"
  /\ UNCHANGED <<env, fpos, position, buffer, origin, buffer_pos, recovered_count,
                 emitted, calls>>

\* while position < file_size is false
EndOfSource ==
  /\ pc = "read"
  /\ ~(position < file_size)
  /\ pc' = "done"
  /\ UNCHANGED <<env, fpos, position, read_size, buffer, origin, buffer_pos,
                 recovered_count, emitted, calls>>

\* the effect of one pass whose for loop ended in state st
Advance(st) ==
  /\ st.outcome = "notfound"
  /\ fpos' = st.fpos
  /\ calls' = st.calls
  /\ buffer_pos' = buffer_pos + 1
  /\ UNCHANGED <<env, position, read_size, buffer, origin, recovered_count, emitted, pc>>

Carve(st) ==
  /\ st.outcome = "found"
  /\ fpos' = st.fpos
  /\ calls' = st.calls
  /\ emitted' = st.emitted
  /\ recovered_count' = st.recovered_count
  /\ buffer_pos' = buffer_pos + st.adv
  /\ UNCHANGED <<env, position, read_size, buffer, origin, pc>>

Abort(st, outcome, to) ==
  /\ st.outcome = outcome
  /\ fpos' = st.fpos
  /\ calls' = st.calls
  /\ pc' = to
  /\ UNCHANGED <<env, position, read_size, buffer, origin, buffer_pos, recovered_count,
                 emitted>>

\* no entry of the catalogue yields a file at buffer_pos: buffer_pos += 1
ScanAdvance == InScan /\ \E ts \in Timestamps : Advance(ScanAt(ts))

\* a file is carved and written: buffer_pos += len(carved_data)
ScanCarve == InScan /\ \E ts \in Timestamps : Carve(ScanAt(ts))

\* open() or write() raises while saving the carved file: the exception
\* leaves _carve_files_chunked and recover_full_drive returns False
ScanSinkError == InScan /\ \E ts \in Timestamps : Abort(ScanAt(ts), "sinkfail", "sink_error")

\* the extractor called at buffer_pos loops without advancing
ScanHang == InScan /\ \E ts \in Timestamps : Abort(ScanAt(ts), "hang", "hung")

\* the inner loop ends: position += read_size
ScanEnd ==
  /\ pc = "scan"
  /\ ~(buffer_pos < Len(buffer) - ScanMargin)
  /\ position' = position + read_size
  /\ pc' = "read"
  /\ UNCHANGED <<env, fpos, read_size, buffer, origin, buffer_pos, recovered_count,
                 emitted, calls>>

Next ==
  \/ ReadChunk
  \/ ReadChunkError
  \/ ReadChunkEmpty
  \/ EndOfSource
  \/ ScanAdvance
  \/ ScanCarve
  \/ ScanSinkError
  \/ ScanHang
  \/ ScanEnd

Spec == Init /\ [][Next]_vars

\* ------------------------------------------------------------------------
\* The extractors on their own: _carve_file_at_position applied once to a
\* source, for every entry of the catalogue and every start offset up to
\* MaxStart.  calls holds the invocation and emitted the range returned.
\* ------------------------------------------------------------------------
MaxStart == 3

\* a JPEG whose FF D9 lies past the first JpgProbe bytes
LongJpeg == <<255, 216, 255, 224, 1, 2, 3, 4, 5, 6, 7, 8, 255, 217>>
\* a PDF with an incremental update: two %%EOF markers
Pdf2Eof == <<37, 80, 68, 70, 1, 2, 37, 37, 69, 79, 70, 3, 4, 5, 37, 37, 69, 79, 70>>
\* a PNG: signature, 4 bytes of chunks, the IEND chunk (length, type, CRC)
Png == <<137, 80, 78, 71, 13, 10, 26, 10, 1, 2, 3, 4,
         0, 0, 0, 0, 73, 69, 78, 68, 174, 66, 96, 130>>
\* end of central directory record: central directory of cds bytes at
\* offset cdo, followed by a comment of clen bytes
Eocd(cds, cdo, clen) ==
  <<80, 75, 5, 6>> \o Zeros(8) \o <<cds, 0, 0, 0>> \o <<cdo, 0, 0, 0>> \o <<clen, 0>>
\* complete archives: local part, empty central directory, EOCD, comment
ZipSmall == <<80, 75, 3, 4>> \o Eocd(0, 4, 0)
ZipPlain == <<80, 75, 3, 4, 1, 2, 3, 4>> \o Eocd(0, 8, 0)
ZipComment == <<80, 75, 3, 4, 1, 2, 3, 4>> \o Eocd(0, 8, 2) \o <<9, 9>>
\* an archive whose EOCD declares a central directory of 40 bytes
ZipOversize == <<80, 75, 3, 4, 1, 2, 3, 4>> \o Eocd(40, 8, 0)
\* an ftyp box that declares 100 bytes
Mp4Oversize == <<0, 0, 0, 100, 102, 116, 121, 112>>

\* a box of size 0: it runs to the end of the stream
BoxZero == <<0, 0, 0, 0, 109, 100, 97, 116, 1, 2, 3, 4>>
\* well-formed RIFF containers of 8 + 12 bytes: form type and one chunk
Avi == <<82, 73, 70, 70, 12, 0, 0, 0, 65, 86, 73, 32, 1, 2, 3, 4, 5, 6, 7, 8>>
Wav == <<82, 73, 70, 70, 12, 0, 0, 0, 87, 65, 86, 69, 1, 2, 3, 4, 5, 6, 7, 8>>
\* the header magic of a compound file, its directory further on
Cfb == <<208, 207, 17, 224, 161, 177, 26, 225>>

ExtractFiles ==
  { Jpeg, LongJpeg, Pdf2Eof, Png, ZipSmall, ZipPlain, ZipComment, ZipOversize,
    Mp4Oversize, Mp4Head, Riff, BoxLarge0, BoxZero, Avi, Wav, Cfb }

ExtractSources ==
  { Pad(Zeros(a) \o f, MaxSourceLen) : a \in {0, 2}, f \in ExtractFiles }
  \cup { Zeros(a) \o f : a \in {0, 2}, f \in {Jpeg, Png, ZipSmall, ZipPlain, ZipComment} }

ExtractInit ==
  /\ source \in ExtractSources
  /\ bad = {}
  /\ chunk_size = 1
  /\ filters = NoFilters
  /\ sink_fail_at = -1
  /\ fpos = 0
  /\ position = 0
  /\ read_size = 0
  /\ buffer = <<>>
  /\ origin = <<>>
  /\ buffer_pos = 0
  /\ recovered_count = 0
  /\ emitted = <<>>
  /\ calls = <<>>
  /\ pc = "call"

\* the extractor of entry i, called at start, has ended with r
Returned(i, start, r) ==
  /\ fpos' = r.fpos
  /\ calls' = <<[buffer_pos |-> 0, magic_at |-> start + FILE_SIGNATURES[i].offset,
                 sig |-> i, file_pos |-> start, status |-> r.status,
                 length |-> Len(r.data)]>>
  /\ emitted' = IF r.status = "data"
                  THEN <<[source_offset |-> start, bytes |-> r.data,
                          file_type |-> FILE_SIGNATURES[i].file_type, name |-> <<>>,
                          sig |-> i, magic_at |-> start + FILE_SIGNATURES[i].offset]>>
                  ELSE <<>>
  /\ pc' = IF r.status = "hang" THEN "hung" ELSE "returned"
  /\ UNCHANGED <<env, position, read_size, buffer, origin, buffer_pos, recovered_count>>

Extract ==
  /\ pc = "call"
  /\ \E i \in 1..NumSigs, start \in 0..MaxStart :
       Returned(i, start, _carve_file_at_position(fpos, start,
                                                  FILE_SIGNATURES[i].file_type,
                                                  FILE_SIGNATURES[i].max_size))

ExtractNext == Extract

ExtractSpec == ExtractInit /\ [][ExtractNext]_vars

\* ------------------------------------------------------------------------
\* Properties
\* ------------------------------------------------------------------------
\* signature i of the catalogue occurs in the source at offset k
OccursAt(i, k) ==
  LET sig == FILE_SIGNATURES[i].signature
  IN k + Len(sig) <= file_size /\ SubSeq(source, k + 1, k + Len(sig)) = sig

\* emitted carve e covers source offset k
Covers(e, k) == e.source_offset <= k /\ k < e.source_offset + Len(e.bytes)

\* the calls made by the step being taken
NewCalls == {calls'[j] : j \in (Len(calls) + 1)..Len(calls')}

\* C1: the source offsets of the emitted carves, in emission order, are
\* strictly increasing
C1_OffsetsStrictlyIncreasing ==
  \A i \in 1..(Len(emitted) - 1) :
    emitted[i].source_offset < emitted[i + 1].source_offset

\* C2: consecutive emitted carves do not overlap: each ends at or before
\* the offset where the next one starts
C2_NoOverlap ==
  \A i \in 1..(Len(emitted) - 1) :
    emitted[i].source_offset + Len(emitted[i].bytes) <= emitted[i + 1].source_offset

\* C3: when the session has returned normally, every source offset where a
\* catalogue signature occurs and that no emitted carve covers has had an
\* extractor invoked for a match at that offset
C3_EverySignatureDispatched ==
  pc = "done" =>
    \A k \in 0..(file_size - 1) :
      (\E i \in 1..NumSigs : OccursAt(i, k))
        => \/ \E j \in 1..Len(calls) : calls[j].magic_at = k
           \/ \E j \in 1..Len(emitted) : Covers(emitted[j], k)

\* C4: the start offset passed to the extractor is the source offset of the
\* first matched magic byte minus the signature's magic_offset_in_file
C4_StartIsMagicMinusOffset ==
  \A j \in 1..Len(calls) :
    calls[j].file_pos = calls[j].magic_at - FILE_SIGNATURES[calls[j].sig].offset

\* the source is zero bytes except for one Jpeg at offset k
OneJpegAt(k) ==
  /\ k + Len(Jpeg) <= file_size
  /\ source = Zeros(k) \o Jpeg \o Zeros(file_size - k - Len(Jpeg))

\* C5: carving a zero source holding one valid JPEG at offset k, with no
\* filter and no failure, emits exactly one carve: jpg, at k, the JPEG's
\* bytes up to and including FF D9
C5_JpegRoundTrip ==
  (pc = "done" /\ ~FiltersGiven(filters) /\ bad = {} /\ sink_fail_at = -1) =>
    \A k \in 0..file_size :
      OneJpegAt(k) =>
        /\ Len(emitted) = 1
        /\ emitted[1].source_offset = k
        /\ emitted[1].file_type = "jpg"
        /\ emitted[1].bytes = Jpeg

\* C6: a reader error while a chunk is read does not abort the session
C6_ReadErrorNotFatal == pc # "read_error"

\* C7: a failure to persist a carved item does not abort the session
C7_SinkErrorNotFatal == pc # "sink_error"

\* C8: a step in which an extractor raised an error emits nothing, leaves
\* the session running and moves the scan exactly one byte on
C8_ErrorSkipsOneByte ==
  [][(\E c \in NewCalls : c.status = "error")
       => (emitted' = emitted /\ pc' = "scan" /\ buffer_pos' = buffer_pos + 1)]_vars

\* C9: every session on a finite source with a positive chunk size
\* terminates: it is never inside an extractor call that does not return
C9_SessionTerminates == pc # "hung"

\* the filter of the specification: every option that is set passes
EndsWith(name, ext) ==
  Len(ext) <= Len(name) /\ SubSeq(name, Len(name) - Len(ext) + 1, Len(name)) = ext
Accepts(f, name, size) ==
  /\ (f.has_extensions /\ f.extensions # {}) => \E x \in f.extensions : EndsWith(name, x)
  /\ (f.has_name_substring /\ f.name_substring # <<>>)
       => \E i \in 0..(Len(name) - Len(f.name_substring)) :
            Lower(SubSeq(name, i + 1, i + Len(f.name_substring))) = Lower(f.name_substring)
  /\ f.has_max_size => size <= f.max_size

\* C10: every emitted carve is accepted by the active filter: each set
\* option (extensions, name_substring, max_size) passes for its name and
\* its length
C10_EmittedPassFilter ==
  \A j \in 1..Len(emitted) :
    Accepts(filters, emitted[j].name, Len(emitted[j].bytes))

\* a filtered session that has rejected one carve and emitted another
C10_Witness ==
  /\ FiltersGiven(filters)
  /\ emitted # <<>>
  /\ Cardinality({j \in 1..Len(calls) : calls[j].length > 0}) > Len(emitted)


\* ------------------------------------------------------------------------
\* Properties of the extractors
\* ------------------------------------------------------------------------
\* the single invocation of ExtractSpec has returned from an extractor of
\* file type t
ReturnedFrom(t) ==
  pc = "returned" /\ Len(calls) = 1 /\ FILE_SIGNATURES[calls[1].sig].file_type = t

\* the source bytes [a, b)
Range(a, b) == Slice(source, a, b)

\* C11: the JPEG extractor called at start returns the bytes from start up
\* to and including the first FF D9 that lies within ceiling bytes of start,
\* and reports no file only when there is no FF D9 within the ceiling
C11_JpegFirstEoiWithinCeiling ==
  ReturnedFrom("jpg") =>
    LET start == calls[1].file_pos
        p == Find(Range(start, start + FILE_SIGNATURES[calls[1].sig].max_size), <<255, 217>>)
    IN IF p = -1 THEN calls[1].status = "none"
       ELSE calls[1].status = "data" /\ emitted[1].bytes = Range(start, start + p + 2)

\* C12: the PDF extractor called at start returns the bytes from start up
\* to the end of the last %%EOF marker of the window it reads
C12_PdfLastEof ==
  ReturnedFrom("pdf") =>
    LET start == calls[1].file_pos
        window == Range(start, start + Min(PdfProbe, FILE_SIGNATURES[calls[1].sig].max_size))
        ends == {q \in 0..Len(window) : Slice(window, q, q + 5) = <<37, 37, 69, 79, 70>>}
    IN ends # {} =>
         /\ calls[1].status = "data"
         /\ \E q \in ends : /\ \A x \in ends : x <= q
                            /\ emitted[1].bytes = Range(start, start + q + 5)

\* C13: for a PNG whose IEND chunk lies within the window read, the length
\* returned is the offset, relative to start, of the 4-byte length field of
\* the IEND chunk plus 12 (length, type and CRC), whatever follows the PNG
C13_PngEndsAfterIendChunk ==
  ReturnedFrom("png") =>
    LET start == calls[1].file_pos
        window == Range(start, start + Min(PngProbe, FILE_SIGNATURES[calls[1].sig].max_size))
        iend == Find(window, <<73, 69, 78, 68>>)
    IN (iend >= 4 /\ start + iend + 8 <= file_size) =>
         calls[1].status = "data" /\ calls[1].length = (iend - 4) + 12

\* the source holds, from offset start on, the complete archive z
ArchiveAt(start, z) == Range(start, start + Len(z)) = z

\* C14: the trailing window of the ZIP extractor is never placed before
\* start nor past the end of the source, so a complete archive shorter than
\* the window, or one in a source that ends before start + ceiling, is
\* recognised
C14_ZipShortArchiveRecognised ==
  ReturnedFrom("zip_based") =>
    \A z \in {ZipSmall, ZipPlain} :
      ArchiveAt(calls[1].file_pos, z) =>
        calls[1].status = "data" /\ emitted[1].bytes = z

\* C15: the length returned by the ZIP extractor is central_dir_offset +
\* central_dir_size + 22 + comment_length, the fields of the end of central
\* directory record at offsets 16, 12 and 20: an archive with a comment is
\* returned with its comment
C15_ZipLengthIncludesComment ==
  ReturnedFrom("zip_based") =>
    LET start == calls[1].file_pos
        max_size == FILE_SIGNATURES[calls[1].sig].max_size
        window == Range(start, start + max_size)
        eocd_pos == Find(window, <<80, 75, 5, 6>>)
        eocd == Slice(window, eocd_pos, eocd_pos + EocdLen)
    IN (calls[1].status = "data" /\ eocd_pos # -1 /\ Len(eocd) = EocdLen) =>
         calls[1].length = Min(UnpackLE(SubSeq(eocd, 17, 20)) + UnpackLE(SubSeq(eocd, 13, 16))
                                 + EocdLen + UnpackLE(SubSeq(eocd, 21, 22)),
                               file_size - start)

\* C16: every range an extractor returns is no longer than the ceiling of
\* the signature it was called for, also when a box, chunk or central
\* directory size declared in the source is larger than the ceiling
C16_LengthWithinCeiling ==
  \A j \in 1..Len(calls) : calls[j].length <= FILE_SIGNATURES[calls[j].sig].max_size

max_signature_length == buffer_size - BufferSlack

\* C19: a refill keeps, in front of the chunk it appends, at least the last
\* max_signature_length - 1 bytes of the previous window (all of it when it
\* is shorter), so that a signature straddling two chunks lies in one window
C19_RefillKeepsSignatureTail ==
  [][(pc = "read" /\ pc' = "scan" /\ origin # <<>>) =>
       LET keep == Min(max_signature_length - 1, Len(origin))
           kept == Len(origin') - (fpos' - fpos)
       IN /\ kept >= keep
          /\ SubSeq(origin', kept - keep + 1, kept)
               = SubSeq(origin, Len(origin) - keep + 1, Len(origin))]_vars

\* C20: no source offset is tested in two windows: no hit, a catalogue
\* entry matched at a source offset, is dispatched to an extractor twice
C20_NoHitDispatchedTwice ==
  \A i \in 1..Len(calls) : \A j \in (i + 1)..Len(calls) :
    ~(calls[i].magic_at = calls[j].magic_at /\ calls[i].sig = calls[j].sig)

\* C21: the scan window is never longer than 2 * chunk_size +
\* max_signature_length
C21_WindowLengthBounded ==
  Len(buffer) <= 2 * chunk_size + max_signature_length

\* C22: at a window position where several entries of the catalogue match,
\* one pass dispatches only the earliest-declared matching entry: whatever
\* its extractor returns, no later entry is dispatched in that pass
C22_OnlyEarliestEntryDispatched ==
  [][\A c \in NewCalls :
       \A i \in 1..NumSigs : SigMatches(i) => c.sig <= i]_vars

\* the invocation of ExtractSpec was made for file type t
CalledFor(t) == Len(calls) = 1 /\ FILE_SIGNATURES[calls[1].sig].file_type = t

\* C23: a box that does not advance the walk cursor of the MP4 walker, here
\* a box of size 1 whose largesize is 0, ends the walk with no file: the
\* walker returns and does not read the box at the same cursor again
C23_Mp4NonAdvancingBoxEndsWalk ==
  (CalledFor("mp4") /\ Range(calls[1].file_pos, calls[1].file_pos + 16) = BoxLarge0)
    => (pc = "returned" /\ calls[1].status = "none")

\* C24: when the MP4 walker reads a box header of size 0, at start or after
\* the ftyp box, the range returned runs from start to start + ceiling, or
\* to the end of the source if that comes first
C24_Mp4ZeroSizeBoxRunsToEnd ==
  ReturnedFrom("mp4") =>
    LET start == calls[1].file_pos
        zero_at(p) == p + 8 <= file_size /\ UnpackBE(Range(p, p + 4)) = 0
    IN (zero_at(start) \/ (Range(start, start + 8) = Mp4Head /\ zero_at(start + 24)))
         => /\ calls[1].status = "data"
            /\ emitted[1].bytes = Range(start, start + FILE_SIGNATURES[calls[1].sig].max_size)

\* the source holds at start a RIFF container of form type form whose
\* header declares s bytes, all of them in the source and below the ceiling
RiffAt(start, form, s, max_size) ==
  /\ Range(start, start + 4) = <<82, 73, 70, 70>>
  /\ s = UnpackLE(Range(start + 4, start + 8))
  /\ Range(start + 8, start + 12) = form
  /\ start + 8 + s <= file_size
  /\ 8 + s < max_size

\* C25: for a well-formed AVI whose RIFF header declares s bytes the
\* walker returns exactly the 8 + s bytes of the container, whatever
\* follows it in the source
C25_AviEndsWithContainer ==
  ReturnedFrom("avi") =>
    \A s \in 4..MaxSourceLen :
      RiffAt(calls[1].file_pos, <<65, 86, 73, 32>>, s, FILE_SIGNATURES[calls[1].sig].max_size)
        => calls[1].status = "data" /\ calls[1].length = 8 + s

\* C26: a hit tagged mov is measured by the box walker of mp4 and a hit
\* tagged wav by the RIFF structure: a mov call returns what _carve_mp4
\* returns, a wav call on a WAVE container of 8 + s bytes returns 8 + s bytes
C26_MovAndWavUseStructure ==
  /\ (ReturnedFrom("mov")
        /\ Range(calls[1].magic_at, calls[1].magic_at + 4) = FILE_SIGNATURES[calls[1].sig].signature)
       => calls[1].length = Len(_carve_mp4(calls[1].file_pos,
                                        FILE_SIGNATURES[calls[1].sig].max_size).data)
  /\ ReturnedFrom("wav") =>
       \A s \in 4..MaxSourceLen :
         RiffAt(calls[1].file_pos, <<87, 65, 86, 69>>, s, FILE_SIGNATURES[calls[1].sig].max_size)
           => calls[1].status = "data" /\ calls[1].length = 8 + s

\* C27: for every hit of the CFB signature the extractor returns the bytes
\* from start to start + ceiling, cut at the end of the source, whatever
\* the content after the signature
C27_CfbReturnsCeilingRange ==
  (ReturnedFrom("cfb")
     /\ Range(calls[1].file_pos, calls[1].file_pos + 4) = FILE_SIGNATURES[calls[1].sig].signature)
    => /\ calls[1].status = "data"
       /\ emitted[1].bytes = Range(calls[1].file_pos,
                                   calls[1].file_pos + FILE_SIGNATURES[calls[1].sig].max_size)

====
